---------------------------- MODULE Spec2Model ----------------------------
(***************************************************************************)
(* A model of the analysis status aggregator (IFTResultsModel,             *)
(* src/opendrop/app/ift/results/model.py) and of the contact-angle         *)
(* analysis session (Context and ConanRootPresenter,                       *)
(* src/opendrop/app/conan/conan.py) of OpenDrop.                           *)
(***************************************************************************)
EXTENDS Integers, Sequences, FiniteSets, Bags, TLC

(***************************************************************************)
(* Bounds of the model.                                                    *)
(***************************************************************************)
\* Number of distinct IFTDropAnalysis objects that exist.
NumAnalyses == 2
\* Longest sequence bn_analyses is set to.
MaxSeqLen == 2
\* Largest time stamp an analysis reports.
MaxTime == 1

\* Number of ConanAnalysis objects Context.new_analysis creates.
MaxConanAnalyses == 2
\* Number of confirmation and save tasks that are unfinished at one time.
MaxTasks == 2
MaxActivations == 4
MaxProfileLen == 1
MaxCoord == 1

AnalysisIds == 1..NumAnalyses
Times == 0..MaxTime

Range(s) == {s[k] : k \in 1..Len(s)}

\* All sequences over S of length at most n.
SeqsUpTo(S, n) == UNION {[1..k -> S] : k \in 0..n}

\* All orders in which the elements of the finite set S can be iterated.
Orders(S) == {o \in [1..Cardinality(S) -> S] : Range(o) = S}

\* list.remove(x): the list without the first occurrence of x.
RemoveFirst(s, x) ==
    LET k == CHOOSE i \in 1..Len(s) : s[i] = x /\ \A j \in 1..(i - 1) : s[j] # x
    IN  SubSeq(s, 1, k - 1) \o SubSeq(s, k + 1, Len(s))

\* list.remove(x) for every x of the set S.
RECURSIVE RemoveEach(_, _)
RemoveEach(s, S) ==
    IF S = {} THEN s
    ELSE LET x == CHOOSE y \in S : TRUE
         IN  RemoveEach(RemoveFirst(s, x), S \ {x})

VARIABLES
    \* ---- IFTResultsModel and the IFTDropAnalysis objects it aggregates
    bn_analyses,             \* the value of the input bindable bn_analyses
    is_done,                 \* analysis -> bn_is_done
    is_cancelled,            \* analysis -> bn_is_cancelled
    time_start,              \* analysis -> bn_time_start
    time_est_complete,       \* analysis -> bn_time_est_complete
    tracked_analyses,        \* self._tracked_analyses (a list)
    analysis_untrack_tasks,  \* self._analysis_untrack_tasks (a dict)
    connections,             \* the live event connections to the model's pokes
    poked,                   \* the derived bindables poked by the last step
    \* ---- Context, the ConanAnalysis objects and ConanRootPresenter
    context,                 \* the fields of Context
    conan_analyses,          \* the ConanAnalysis objects created so far
    tasks,                   \* the asyncio tasks of the presenter's dialogs
    save_dlg,                \* ConanRootPresenter.save_dlg (0: None)
    page_option,             \* the three page options
    active_content_view,     \* ConanRootView.active_content_view
    active_footer_view,      \* ConanRootView.active_footer_view
    \* ---- ConanSpeaker
    speaker,                 \* the fields of ConanSpeaker and the objects it created
    \* ---- DropFitView and the input bindables of DropFitPresenter
    drop_fit,                \* the two profile bindables and the two plotted lines
    ev                       \* history: the operation the last step performed

results_vars == <<bn_analyses, is_done, is_cancelled, time_start, time_est_complete,
                  tracked_analyses, analysis_untrack_tasks, connections, poked>>

conan_vars == <<context, conan_analyses, tasks, save_dlg, page_option, active_content_view,
                active_footer_view>>

vars == <<results_vars, conan_vars, speaker, drop_fit, ev>>

(***************************************************************************)
(* IFTResultsModel                                                         *)
(***************************************************************************)
NO_ANALYSES == "NO_ANALYSES"
FITTING == "FITTING"
FINISHED == "FINISHED"
CANCELLED == "CANCELLED"
Status == {NO_ANALYSES, FITTING, FINISHED, CANCELLED}

\* math.nan
NaN == "nan"

\* The four event connections _track_analysis makes for an analysis.
event_connections(analysis) ==
    { [analysis |-> analysis, event |-> "bn_status", poke |-> "bn_fitting_status"],
      [analysis |-> analysis, event |-> "bn_is_done",
       poke |-> "bn_analyses_completion_progress"],
      [analysis |-> analysis, event |-> "bn_time_start", poke |-> "bn_analyses_time_start"],
      [analysis |-> analysis, event |-> "bn_time_est_complete",
       poke |-> "bn_analyses_time_est_complete"] }

DerivedBindables == {"bn_fitting_status", "bn_analyses_completion_progress",
                     "bn_analyses_time_start", "bn_analyses_time_est_complete"}

\* The untrack tasks stored for an analysis: the disconnect of each connection.
untrack_tasks_of(analysis) == event_connections(analysis)

\* Python's min() and max() of a sequence of numbers, and the division of two
\* integers as the fraction it yields; each raises on an empty or zero argument.
py_min(values) ==
    IF Len(values) = 0 THEN "ValueError"
    ELSE CHOOSE v \in Range(values) : \A u \in Range(values) : v <= u

py_max(values) ==
    IF Len(values) = 0 THEN "ValueError"
    ELSE CHOOSE v \in Range(values) : \A u \in Range(values) : v >= u

py_div(num, den) ==
    IF den = 0 THEN "ZeroDivisionError" ELSE [num |-> num, den |-> den]

\* Mutant of _get_analyses_time_start: max in place of min.
get_analyses_time_start_max ==
    IF Len(bn_analyses) = 0 THEN NaN
    ELSE py_max([k \in 1..Len(bn_analyses) |-> time_start[bn_analyses[k]]])

get_analyses_time_start ==
    IF Len(bn_analyses) = 0 THEN NaN
    ELSE py_min([k \in 1..Len(bn_analyses) |-> time_start[bn_analyses[k]]])

get_analyses_time_est_complete ==
    IF Len(bn_analyses) = 0 THEN NaN
    ELSE py_max([k \in 1..Len(bn_analyses) |-> time_est_complete[bn_analyses[k]]])

\* Mutant of _get_analyses_completion_progress: an analysis that occurs more than
\* once in the sequence is counted once as completed.
get_analyses_completion_progress_distinct ==
    IF Len(bn_analyses) = 0 THEN NaN
    ELSE py_div(Cardinality({a \in Range(bn_analyses) : is_done[a]}), Len(bn_analyses))

\* Mutant of _get_analyses_completion_progress: the empty check is missing.
get_analyses_completion_progress_no_empty_check ==
    py_div(Cardinality({k \in 1..Len(bn_analyses) : is_done[bn_analyses[k]]}),
           Len(bn_analyses))

get_analyses_completion_progress ==
    IF Len(bn_analyses) = 0 THEN NaN
    ELSE py_div(Cardinality({k \in 1..Len(bn_analyses) : is_done[bn_analyses[k]]}),
                Len(bn_analyses))

\* calculate_time_elapsed and calculate_time_remaining; time_elapsed_of and
\* time_remaining_of give what each analysis's own method returns.
calculate_time_elapsed(time_elapsed_of) ==
    IF Len(bn_analyses) = 0 THEN NaN
    ELSE py_max([k \in 1..Len(bn_analyses) |-> time_elapsed_of[bn_analyses[k]]])

calculate_time_remaining(time_remaining_of) ==
    IF Len(bn_analyses) = 0 THEN NaN
    ELSE py_max([k \in 1..Len(bn_analyses) |-> time_remaining_of[bn_analyses[k]]])

\* Mutants of _get_fitting_status.
\* The empty check is missing: all() of no analyses is true.
get_fitting_status_no_empty_check ==
    IF \E k \in 1..Len(bn_analyses) : is_cancelled[bn_analyses[k]] THEN CANCELLED
    ELSE IF \A k \in 1..Len(bn_analyses) :
                is_done[bn_analyses[k]] /\ ~is_cancelled[bn_analyses[k]] THEN FINISHED
    ELSE FITTING

\* all() in place of any() in the cancelled check.
get_fitting_status_all_cancelled ==
    IF Len(bn_analyses) = 0 THEN NO_ANALYSES
    ELSE IF \A k \in 1..Len(bn_analyses) : is_cancelled[bn_analyses[k]] THEN CANCELLED
    ELSE IF \A k \in 1..Len(bn_analyses) :
                is_done[bn_analyses[k]] /\ ~is_cancelled[bn_analyses[k]] THEN FINISHED
    ELSE FITTING

\* any() in place of all() in the finished check.
get_fitting_status_any_done ==
    IF Len(bn_analyses) = 0 THEN NO_ANALYSES
    ELSE IF \E k \in 1..Len(bn_analyses) : is_cancelled[bn_analyses[k]] THEN CANCELLED
    ELSE IF \E k \in 1..Len(bn_analyses) :
                is_done[bn_analyses[k]] /\ ~is_cancelled[bn_analyses[k]] THEN FINISHED
    ELSE FITTING

\* The finished check comes first and looks at the done flags only.
get_fitting_status_finished_first ==
    IF Len(bn_analyses) = 0 THEN NO_ANALYSES
    ELSE IF \A k \in 1..Len(bn_analyses) : is_done[bn_analyses[k]] THEN FINISHED
    ELSE IF \E k \in 1..Len(bn_analyses) : is_cancelled[bn_analyses[k]] THEN CANCELLED
    ELSE FITTING

get_fitting_status ==
    IF Len(bn_analyses) = 0 THEN NO_ANALYSES
    ELSE IF \E k \in 1..Len(bn_analyses) : is_cancelled[bn_analyses[k]] THEN CANCELLED
    ELSE IF \A k \in 1..Len(bn_analyses) :
                is_done[bn_analyses[k]] /\ ~is_cancelled[bn_analyses[k]] THEN FINISHED
    ELSE FITTING

\* Mutant of _untrack_analysis: the stored tasks are dropped without being run.
run_untrack_tasks_not_run(conns, untrack_tasks, to_untrack) == conns

\* _untrack_analysis of every analysis in to_untrack: each stored task disconnects
\* its connection.
run_untrack_tasks(conns, untrack_tasks, to_untrack) ==
    conns \ UNION {untrack_tasks[a] : a \in to_untrack}

\* History: the step before this one removed `analysis` from the set and untracked it.
just_untracked(analysis) == ev.op = "set_analyses" /\ analysis \in ev.untracked

\* on_changed of `event` of `analysis` fires: the pokes its live connections make.
fire(analysis, event) ==
    {c.poke : c \in {d \in connections : d.analysis = analysis /\ d.event = event}}

\* Mutant of _hdl_analyses_changed: to_track is taken from the sequence, not from
\* its set, so that an untracked analysis is tracked once for each occurrence.
hdl_analyses_changed_per_occurrence(analyses) ==
    LET to_track == Range(analyses) \ Range(tracked_analyses)
        order == SelectSeq(analyses, LAMBDA a : a \in to_track)
        tracked1 == tracked_analyses \o order
        tasks1 == [a \in (DOMAIN analysis_untrack_tasks) \cup to_track |->
                      IF a \in to_track THEN untrack_tasks_of(a)
                      ELSE analysis_untrack_tasks[a]]
        conns1 == connections \cup UNION {event_connections(a) : a \in to_track}
        to_untrack == Range(tracked1) \ Range(analyses)
    IN  /\ tracked_analyses' = RemoveEach(tracked1, to_untrack)
        /\ analysis_untrack_tasks' =
              [a \in (DOMAIN tasks1) \ to_untrack |-> tasks1[a]]
        /\ connections' = run_untrack_tasks(conns1, tasks1, to_untrack)
        /\ poked' = IF to_track = {} THEN {} ELSE DerivedBindables
        /\ ev' = [op |-> "set_analyses", untracked |-> to_untrack]

\* _hdl_analyses_changed, run by bn_analyses.on_changed when bn_analyses is set.
hdl_analyses_changed(analyses) ==
    LET to_track == Range(analyses) \ Range(tracked_analyses)
    IN  \E order \in Orders(to_track) :
          LET tracked1 == tracked_analyses \o order
              tasks1 == [a \in (DOMAIN analysis_untrack_tasks) \cup to_track |->
                            IF a \in to_track THEN untrack_tasks_of(a)
                            ELSE analysis_untrack_tasks[a]]
              conns1 == connections \cup UNION {event_connections(a) : a \in to_track}
              to_untrack == Range(tracked1) \ Range(analyses)
          IN  /\ tracked_analyses' = RemoveEach(tracked1, to_untrack)
              /\ analysis_untrack_tasks' =
                    [a \in (DOMAIN tasks1) \ to_untrack |-> tasks1[a]]
              /\ connections' = run_untrack_tasks(conns1, tasks1, to_untrack)
              /\ poked' = IF to_track = {} THEN {} ELSE DerivedBindables
              /\ ev' = [op |-> "set_analyses", untracked |-> to_untrack]

\* The owner of bn_analyses sets it to a new sequence of analyses.
SetAnalyses(analyses) ==
    /\ bn_analyses' = analyses
    /\ hdl_analyses_changed(analyses)
    /\ UNCHANGED <<is_done, is_cancelled, time_start, time_est_complete, conan_vars, speaker, drop_fit>>

\* An analysis changes its status: bn_status.on_changed fires, and
\* bn_is_done.on_changed when the done flag changed with it.
StatusChanged(analysis, done, cancelled) ==
    /\ is_done' = [is_done EXCEPT ![analysis] = done]
    /\ is_cancelled' = [is_cancelled EXCEPT ![analysis] = cancelled]
    /\ poked' = fire(analysis, "bn_status") \cup
                (IF done # is_done[analysis] THEN fire(analysis, "bn_is_done") ELSE {})
    /\ ev' = [op |-> "status_changed", analysis |-> analysis,
              events |-> {"bn_status"} \cup
                         (IF done # is_done[analysis] THEN {"bn_is_done"} ELSE {}),
              just_untracked |-> just_untracked(analysis)]
    /\ UNCHANGED <<bn_analyses, time_start, time_est_complete, tracked_analyses,
                   analysis_untrack_tasks, connections, conan_vars, speaker, drop_fit>>

TimeStartChanged(analysis, t) ==
    /\ t # time_start[analysis]
    /\ time_start' = [time_start EXCEPT ![analysis] = t]
    /\ poked' = fire(analysis, "bn_time_start")
    /\ ev' = [op |-> "time_changed", analysis |-> analysis, events |-> {"bn_time_start"},
              just_untracked |-> just_untracked(analysis)]
    /\ UNCHANGED <<bn_analyses, is_done, is_cancelled, time_est_complete,
                   tracked_analyses, analysis_untrack_tasks, connections, conan_vars, speaker, drop_fit>>

TimeEstCompleteChanged(analysis, t) ==
    /\ t # time_est_complete[analysis]
    /\ time_est_complete' = [time_est_complete EXCEPT ![analysis] = t]
    /\ poked' = fire(analysis, "bn_time_est_complete")
    /\ ev' = [op |-> "time_changed", analysis |-> analysis,
              events |-> {"bn_time_est_complete"},
              just_untracked |-> just_untracked(analysis)]
    /\ UNCHANGED <<bn_analyses, is_done, is_cancelled, time_start,
                   tracked_analyses, analysis_untrack_tasks, connections, conan_vars, speaker, drop_fit>>

ResultsInit ==
    /\ bn_analyses = <<>>
    /\ is_done = [a \in AnalysisIds |-> FALSE]
    /\ is_cancelled = [a \in AnalysisIds |-> FALSE]
    /\ time_start = [a \in AnalysisIds |-> 0]
    /\ time_est_complete = [a \in AnalysisIds |-> 0]
    /\ tracked_analyses = <<>>
    /\ analysis_untrack_tasks = <<>>
    /\ connections = {}
    /\ poked = {}

(***************************************************************************)
(* Context and the ConanAnalysis objects (conan.py).  The operations are   *)
(* functions of a world w = [context, analyses, tasks]: a change of an     *)
(* analysis's bn_done runs, within the same call, the binding to           *)
(* bn_current_analysis_done and the listeners connected to it.             *)
(***************************************************************************)
None == 0
ConanAnalysisIds == 1..MaxConanAnalyses
Pages == {"image_acquisition", "image_processing", "results"}

World == [context |-> context, analyses |-> conan_analyses, tasks |-> tasks]

\* The number of tasks of the bag b that satisfy P.
CountTasks(b, P(_)) ==
    BagCardinality([t \in {x \in BagToSet(b) : P(x)} |-> b[t]])

\* loop.create_task(coro): a task whose first step is scheduled with call_soon,
\* behind the first steps of the tasks of b that have not started.  pc is where
\* its coroutine stands, waiter the state of the future it awaits, result what
\* the finished task holds; early and second are history.
create_task(kind, b) ==
    [kind |-> kind, pc |-> "start", waiter |-> "none", must_cancel |-> FALSE,
     response |-> "none", result |-> "none", dlg_open |-> FALSE, conn |-> FALSE,
     early |-> FALSE, second |-> FALSE,
     behind |-> CountTasks(b, LAMBDA t : t.pc = "start")]

\* The bag b with one task t replaced by u; a first step of t lets the first
\* steps scheduled behind it move up.
Replace(b, t, u) ==
    LET rest == b (-) SetToBag({t})
        moved == IF t.pc = "start"
                 THEN BagOfAll(LAMBDA x : IF x.pc = "start"
                                          THEN [x EXCEPT !.behind = @ - 1] ELSE x, rest)
                 ELSE rest
    IN  moved (+) SetToBag({u})

\* asyncio.Task.cancel(): a done task is left alone; a pending awaited future is
\* cancelled (the task wakes with CancelledError); otherwise the cancellation is
\* delivered at the task's next step.
task_cancel(t) ==
    IF t.pc = "done" THEN t
    ELSE IF t.waiter = "pending" THEN [t EXCEPT !.waiter = "cancelled"]
    ELSE [t EXCEPT !.must_cancel = TRUE]

\* Mutant of IfThen.__call__: then is called whatever cond returns.
IfThen_unconditional(cond, then, else) == then

\* IfThen.__call__
IfThen(cond, then, else) == IF cond THEN then ELSE else

\* Mutant of the early termination listener: the then-branch is never taken.
early_termination_never(t, value) == t

\* on_changed of bn_current_analysis_done: the listener of each cancel request
\* whose early_termination_conn is connected runs
\* IfThen(cond=bn_current_analysis_done.get, then=confirm_cancel_analysis.cancel).
early_termination(t, value) ==
    IF t.conn THEN IfThen(value, task_cancel(t), t) ELSE t

\* History: the current analysis became done while the cancel request's
\* confirmation was unfinished.
mark_early(t, value) ==
    IF value /\ t.kind = "cancel" /\ t.pc # "done" THEN [t EXCEPT !.early = TRUE] ELSE t

\* AtomicBindableVar.set on bn_current_analysis_done; a change fires on_changed.
set_bn_current_analysis_done(w, value) ==
    IF w.context.bn_current_analysis_done = value THEN w
    ELSE [w EXCEPT !.context.bn_current_analysis_done = value,
                   !.tasks = BagOfAll(LAMBDA t :
                                early_termination(mark_early(t, value), value), @)]

\* analysis.bn_done becomes true; the binding made by _bind_analysis, while it
\* lasts, copies it to bn_current_analysis_done.
analysis_set_done(w, a) ==
    LET w1 == [w EXCEPT !.analyses[a].bn_done = TRUE]
    IN  IF a \in w.context.analysis_unbind_tasks
        THEN set_bn_current_analysis_done(w1, TRUE) ELSE w1

\* ConanAnalysis.cancel(): the analysis ends; bn_done becomes true within the call
\* (sync) or later.
analysis_cancel(w, a, sync) ==
    LET w1 == [w EXCEPT !.analyses[a].cancel_called = TRUE]
    IN  IF sync /\ ~w.analyses[a].bn_done THEN analysis_set_done(w1, a) ELSE w1

\* Mutant of the setter of Context._current_analysis: the former binding is kept.
set_current_analysis_no_unbind(w, a) ==
    LET w1 == [w EXCEPT !.context.current_analysis_value = a,
                        !.context.results_explorer_analysis = a]
    IN  IF a # None
        THEN LET w2 == set_bn_current_analysis_done(w1, w1.analyses[a].bn_done)
             IN  [w2 EXCEPT !.context.analysis_unbind_tasks = @ \cup {a}]
        ELSE w1

\* The setter of Context._current_analysis: unbind, assign, bind.
set_current_analysis(w, a) ==
    LET w1 == [w EXCEPT !.context.analysis_unbind_tasks = {},
                        !.context.current_analysis_value = a,
                        !.context.results_explorer_analysis = a]
    IN  IF a # None
        THEN LET w2 == set_bn_current_analysis_done(w1, w1.analyses[a].bn_done)
             IN  [w2 EXCEPT !.context.analysis_unbind_tasks = {a}]
        ELSE w1

\* Mutant of new_analysis: _current_analysis_saved is not reset.
new_analysis_keeps_saved(w) ==
    LET analysis == Len(w.analyses) + 1
        w1 == [w EXCEPT !.analyses = Append(@, [bn_done |-> FALSE,
                                                cancel_called |-> FALSE])]
    IN  set_current_analysis(w1, analysis)

new_analysis(w) ==
    LET analysis == Len(w.analyses) + 1
        w1 == [w EXCEPT !.analyses = Append(@, [bn_done |-> FALSE,
                                                cancel_called |-> FALSE])]
        w2 == set_current_analysis(w1, analysis)
    IN  [w2 EXCEPT !.context.current_analysis_saved = FALSE]

\* Mutant of cancel_current_analysis: the analysis is not cancelled.
cancel_current_analysis_no_cancel(w, sync) == w

cancel_current_analysis(w, sync) ==
    IF w.context.current_analysis_value = None THEN w
    ELSE analysis_cancel(w, w.context.current_analysis_value, sync)

\* Mutant of clear_current_analysis: _current_analysis_saved is not reset.
clear_current_analysis_keeps_saved(w, sync) ==
    set_current_analysis(cancel_current_analysis(w, sync), None)

clear_current_analysis(w, sync) ==
    LET w1 == cancel_current_analysis(w, sync)
        w2 == set_current_analysis(w1, None)
    IN  [w2 EXCEPT !.context.current_analysis_saved = FALSE]

\* Mutant of save_current_analysis: the check of bn_done is missing.
save_current_analysis_no_done_check(w) ==
    IF w.context.current_analysis_value = None
    THEN [world |-> w, raised |-> "no_current_analysis", save_drops |-> FALSE]
    ELSE [world |-> [w EXCEPT !.context.current_analysis_saved = TRUE],
          raised |-> "none", save_drops |-> TRUE]

\* save_current_analysis: the new world, the ValueError raised ("none": none) and
\* whether save_drops was called.
save_current_analysis(w) ==
    IF w.context.current_analysis_value = None
    THEN [world |-> w, raised |-> "no_current_analysis", save_drops |-> FALSE]
    ELSE IF ~w.analyses[w.context.current_analysis_value].bn_done
    THEN [world |-> w, raised |-> "not_done", save_drops |-> FALSE]
    ELSE [world |-> [w EXCEPT !.context.current_analysis_saved = TRUE],
          raised |-> "none", save_drops |-> TRUE]

current_analysis_exists == context.current_analysis_value # None
current_analysis_saved == context.current_analysis_saved
current_analysis_done == context.bn_current_analysis_done

\* The world w becomes the state.
Becomes(w) ==
    /\ context' = w.context
    /\ conan_analyses' = w.analyses
    /\ tasks' = w.tasks

(***************************************************************************)
(* ConanRootPresenter (conan.py).  Every callback the event loop runs is   *)
(* one action: a user request, a step of a task's coroutine up to its next *)
(* await, a dialog's response, a task's done callback.  tasks is the bag   *)
(* of the tasks whose done callback has not run yet.                       *)
(***************************************************************************)
\* Mutant of MutuallyExclusiveOptions: the other options are left alone.
MutuallyExclusiveOptions_not_managed(options, page) == [options EXCEPT ![page] = TRUE]

\* MutuallyExclusiveOptions: "only one can be set to True at a time"; setting one
\* option true sets the others false.
MutuallyExclusiveOptions(options, page) == [p \in DOMAIN options |-> p = page]

\* Mutant of _hdl_page_option_<page>_changed: the footer view is not switched.
hdl_page_option_changed_content_only(views, page, value) ==
    IF value THEN [views EXCEPT !.content = page] ELSE views

\* _hdl_page_option_<page>_changed: an option that is now true makes the content
\* and the footer view of its page the active ones; one that is now false only
\* lets its content presenter leave.
hdl_page_option_changed(views, page, value) ==
    IF value THEN [content |-> page, footer |-> page] ELSE views

\* The handlers of the pages of `order` run one after the other.
RECURSIVE run_page_handlers(_, _, _)
run_page_handlers(views, order, options) ==
    IF Len(order) = 0 THEN views
    ELSE run_page_handlers(hdl_page_option_changed(views, Head(order), options[Head(order)]),
                           Tail(order), options)

\* _page_option_<page>.set(True): the options are managed, and on_changed of each
\* option whose value changed runs its handler, in any order.
SetPageOption(page) ==
    LET options == MutuallyExclusiveOptions(page_option, page)
        changed == {p \in Pages : options[p] # page_option[p]}
    IN  \E order \in Orders(changed) :
          LET views == run_page_handlers([content |-> active_content_view,
                                          footer |-> active_footer_view],
                                         order, options)
          IN  /\ page_option' = options
              /\ active_content_view' = views.content
              /\ active_footer_view' = views.footer

\* The model holds at most MaxTasks unfinished tasks.
CanCreateTask == BagCardinality(tasks) < MaxTasks

\* The next of the image acquisition footer: IfThen(validate, set the page option).
AcquisitionNext(valid) ==
    /\ active_footer_view = "image_acquisition"
    /\ IfThen(valid, SetPageOption("image_processing"),
              UNCHANGED <<page_option, active_content_view, active_footer_view>>)
    /\ ev' = [op |-> "acquisition_next", valid |-> valid]
    /\ UNCHANGED <<context, conan_analyses, tasks, save_dlg, results_vars, speaker, drop_fit>>

\* The back of the image processing footer.
ProcessingBack ==
    /\ active_footer_view = "image_processing"
    /\ SetPageOption("image_acquisition")
    /\ ev' = [op |-> "processing_back"]
    /\ UNCHANGED <<context, conan_analyses, tasks, save_dlg, results_vars, speaker, drop_fit>>

\* The next of the image processing footer:
\* IfThen(validate, _user_wants_to_start_analysis).
user_wants_to_start_analysis(valid) ==
    /\ active_footer_view = "image_processing"
    /\ Len(conan_analyses) < MaxConanAnalyses
    /\ IfThen(valid,
              /\ Becomes(new_analysis(World))
              /\ SetPageOption("results"),
              UNCHANGED <<context, conan_analyses, tasks, page_option,
                          active_content_view, active_footer_view>>)
    /\ ev' = [op |-> "start", valid |-> valid]
    /\ UNCHANGED <<save_dlg, results_vars, speaker, drop_fit>>

\* Mutant of the guard of _user_wants_to_cancel_analysis: the done check is missing.
cancel_request_is_noop_no_done_check == ~current_analysis_exists

\* Whether _user_wants_to_cancel_analysis returns at once.
cancel_request_is_noop == ~current_analysis_exists \/ current_analysis_done

\* The cancel action of the results footer.
user_wants_to_cancel_analysis ==
    /\ active_footer_view = "results"
    /\ IF cancel_request_is_noop
       THEN /\ UNCHANGED tasks
            /\ ev' = [op |-> "cancel_request", created |-> FALSE]
       ELSE /\ CanCreateTask
            /\ tasks' = tasks (+) SetToBag({[create_task("cancel", tasks) EXCEPT !.conn = TRUE]})
            /\ ev' = [op |-> "cancel_request", created |-> TRUE]
    /\ UNCHANGED <<context, conan_analyses, save_dlg, page_option, active_content_view,
                   active_footer_view, results_vars, speaker, drop_fit>>

\* Mutant of do_it: the page is switched without clearing the current analysis.
exit_do_it_no_clear(w, sync) ==
    /\ Becomes(w)
    /\ SetPageOption("image_processing")

\* do_it of _user_wants_to_exit_analysis, past its check of the future.
exit_do_it(w, sync) ==
    /\ Becomes(clear_current_analysis(w, sync))
    /\ SetPageOption("image_processing")

\* The back action of the results footer.
user_wants_to_exit_analysis ==
    /\ active_footer_view = "results"
    /\ IF ~current_analysis_done
       THEN \* the assert fails
            /\ ev' = [op |-> "exit_request", raised |-> TRUE, dialog |-> FALSE]
            /\ UNCHANGED <<context, conan_analyses, tasks, page_option,
                           active_content_view, active_footer_view>>
       ELSE IF ~current_analysis_saved
       THEN /\ CanCreateTask
            /\ tasks' = tasks (+) SetToBag({create_task("discard", tasks)})
            /\ ev' = [op |-> "exit_request", raised |-> FALSE, dialog |-> TRUE]
            /\ UNCHANGED <<context, conan_analyses, page_option,
                           active_content_view, active_footer_view>>
       ELSE /\ \E sync \in BOOLEAN : exit_do_it(World, sync)
            /\ ev' = [op |-> "exit_request", raised |-> FALSE, dialog |-> FALSE]
    /\ UNCHANGED <<save_dlg, results_vars, speaker, drop_fit>>

\* History: a save flow is pending, from its request until its coroutine ends.
save_flow_pending == \E t \in BagToSet(tasks) : t.kind = "save" /\ t.pc # "done"

\* The save action of the results footer.
user_wants_to_save_analysis ==
    /\ active_footer_view = "results"
    /\ IF ~current_analysis_done
       THEN /\ UNCHANGED tasks
            /\ ev' = [op |-> "save_request", created |-> FALSE]
       ELSE /\ CanCreateTask
            /\ tasks' = tasks (+) SetToBag({[create_task("save", tasks)
                                               EXCEPT !.second = save_flow_pending]})
            /\ ev' = [op |-> "save_request", created |-> TRUE]
    /\ UNCHANGED <<context, conan_analyses, save_dlg, page_option, active_content_view,
                   active_footer_view, results_vars, speaker, drop_fit>>

\* The coroutine is resumed with a CancelledError.
cancelled_now(t) == t.must_cancel \/ t.waiter = "cancelled"

\* The task ends: its done callback is scheduled.
finish(t, result) ==
    [t EXCEPT !.pc = "done", !.result = result, !.waiter = "none", !.must_cancel = FALSE]

\* One step of _ask_user_confirm_cancel_analysis or
\* _ask_user_confirm_discard_analysis_results: create the dialog and await its
\* response, or take the response, destroy the dialog (finally) and return.
ask_user_confirm(t) ==
    IF cancelled_now(t) THEN [finish(t, "cancelled") EXCEPT !.dlg_open = FALSE]
    ELSE IF t.pc = "start"
    THEN [t EXCEPT !.pc = "await_response", !.dlg_open = TRUE, !.waiter = "pending"]
    ELSE [finish(t, IF t.response = "YES" THEN "true" ELSE "false")
             EXCEPT !.dlg_open = FALSE]

\* The task has a step the loop can run now: its first step, once the first steps
\* scheduled before it have run, or the wakeup by its awaited future.
step_scheduled(t) ==
    \/ t.pc = "start" /\ t.behind = 0
    \/ t.waiter \in {"result", "cancelled"}

\* The loop runs the next step of the task of a cancel request.
ask_user_confirm_cancel_analysis(t) ==
    /\ t.kind = "cancel"
    /\ step_scheduled(t)
    /\ tasks' = Replace(tasks, t, ask_user_confirm(t))
    /\ ev' = [op |-> "confirm_cancel_step"]
    /\ UNCHANGED <<context, conan_analyses, save_dlg, page_option, active_content_view,
                   active_footer_view, results_vars, speaker, drop_fit>>

\* The loop runs the next step of the task of an exit request.
ask_user_confirm_discard_analysis_results(t) ==
    /\ t.kind = "discard"
    /\ step_scheduled(t)
    /\ tasks' = Replace(tasks, t, ask_user_confirm(t))
    /\ ev' = [op |-> "confirm_discard_step"]
    /\ UNCHANGED <<context, conan_analyses, save_dlg, page_option, active_content_view,
                   active_footer_view, results_vars, speaker, drop_fit>>

\* What save_root_dir is found to be.
PathKinds == {"missing", "empty_dir", "nonempty_dir", "not_a_dir"}

\* self.save_dlg holds a ConanAnalysisSaverPresenter.
SaverPresenter == 1

\* The head of the loop of _ask_user_save_analysis: a saver dialog is created and
\* self.save_dlg set to its presenter.
open_saver_dialog(t) ==
    /\ save_dlg' = SaverPresenter
    /\ tasks' = Replace(tasks, t, [t EXCEPT !.pc = "await_save_dlg", !.dlg_open = TRUE,
                                            !.waiter = "pending", !.response = "none"])

\* Mutant of the examination of save_root_dir: a directory is taken without
\* looking at its content.
after_accept_no_iterdir(t, path) ==
    IF path \in {"missing", "empty_dir", "nonempty_dir"}
    THEN [finish(t, "options") EXCEPT !.dlg_open = FALSE]
    ELSE [t EXCEPT !.pc = "await_not_a_dir", !.waiter = "pending",
                   !.dlg_open = FALSE, !.response = "none"]

\* Mutant of the examination of save_root_dir: is_dir() is not looked at.
after_accept_no_is_dir(t, path) ==
    IF path \in {"missing", "empty_dir", "not_a_dir"}
    THEN [finish(t, "options") EXCEPT !.dlg_open = FALSE]
    ELSE [t EXCEPT !.pc = "await_clear_dir", !.waiter = "pending",
                   !.dlg_open = FALSE, !.response = "none"]

\* The saver dialog was accepted and is destroyed: save_root_dir is examined and
\* the loop is left with the options, or a further dialog is shown and awaited.
after_accept(t, path) ==
    IF path \in {"missing", "empty_dir"}
    THEN [finish(t, "options") EXCEPT !.dlg_open = FALSE]
    ELSE IF path = "nonempty_dir"
    THEN [t EXCEPT !.pc = "await_clear_dir", !.waiter = "pending",
                   !.dlg_open = FALSE, !.response = "none"]
    ELSE [t EXCEPT !.pc = "await_not_a_dir", !.waiter = "pending",
                   !.dlg_open = FALSE, !.response = "none"]

\* Whether this step of the save coroutine examines save_root_dir.
examines_path(t) ==
    /\ ~cancelled_now(t)
    /\ t.pc = "await_save_dlg"
    /\ save_dlg # None
    /\ t.response = "ACCEPT"

\* Mutant of the guard of _ask_user_save_analysis: it is missing.
save_dialog_already_open_never == FALSE

\* Whether _ask_user_save_analysis returns at once.
save_dialog_already_open == save_dlg # None

\* The loop runs the next step of the task of a save request; `path` is what the
\* accepted save location is found to be.
ask_user_save_analysis(t, path) ==
    /\ t.kind = "save"
    /\ step_scheduled(t)
    /\ CASE cancelled_now(t) ->
              \* CancelledError is thrown into the coroutine at its await
              IF t.pc = "await_save_dlg"
              THEN IF save_dlg = None
                   THEN \* self.save_dlg.destroy() fails in the finally block
                        /\ tasks' = Replace(tasks, t, finish(t, "error"))
                        /\ UNCHANGED save_dlg
                   ELSE /\ save_dlg' = None
                        /\ tasks' = Replace(tasks, t,
                              [finish(t, "cancelled") EXCEPT !.dlg_open = FALSE])
              ELSE /\ tasks' = Replace(tasks, t, finish(t, "cancelled"))
                   /\ UNCHANGED save_dlg
         [] t.pc = "start" ->
              IF save_dialog_already_open
              THEN /\ tasks' = Replace(tasks, t, finish(t, "none"))
                   /\ UNCHANGED save_dlg
              ELSE open_saver_dialog(t)
         [] t.pc = "await_save_dlg" ->
              IF save_dlg = None
              THEN \* self.save_dlg.destroy() fails in the finally block
                   /\ tasks' = Replace(tasks, t, finish(t, "error"))
                   /\ UNCHANGED save_dlg
              ELSE /\ save_dlg' = None
                   /\ tasks' = Replace(tasks, t,
                        IF t.response = "REJECT"
                        THEN [finish(t, "none") EXCEPT !.dlg_open = FALSE]
                        ELSE after_accept(t, path))
         [] t.pc = "await_clear_dir" ->
              IF t.response = "YES"
              THEN /\ tasks' = Replace(tasks, t, finish(t, "options"))
                   /\ UNCHANGED save_dlg
              ELSE open_saver_dialog(t)
         [] t.pc = "await_not_a_dir" -> open_saver_dialog(t)
    /\ ev' = [op |-> "save_step", from |-> t.pc,
              path |-> IF examines_path(t) THEN path ELSE "none"]
    /\ UNCHANGED <<context, conan_analyses, page_option, active_content_view,
                   active_footer_view, results_vars, speaker, drop_fit>>

\* The user answers a yes/no dialog: on_response fires and the awaited future gets
\* its result.
dialog_response(t, response) ==
    /\ t.pc \in {"await_response", "await_clear_dir"}
    /\ t.waiter = "pending"
    /\ tasks' = Replace(tasks, t, [t EXCEPT !.response = response, !.waiter = "result"])
    /\ ev' = [op |-> "dialog_response"]
    /\ UNCHANGED <<context, conan_analyses, save_dlg, page_option, active_content_view,
                   active_footer_view, results_vars, speaker, drop_fit>>

\* The user accepts or rejects the saver dialog: on_user_finished_editing fires.
user_finished_editing(t, accept) ==
    /\ t.pc = "await_save_dlg"
    /\ t.waiter = "pending"
    /\ tasks' = Replace(tasks, t,
                    [t EXCEPT !.response = IF accept THEN "ACCEPT" ELSE "REJECT",
                              !.waiter = "result"])
    /\ ev' = [op |-> "user_finished_editing"]
    /\ UNCHANGED <<context, conan_analyses, save_dlg, page_option, active_content_view,
                   active_footer_view, results_vars, speaker, drop_fit>>

\* The user acknowledges the error dialog: on_acknowledged fires.
dialog_acknowledged(t) ==
    /\ t.pc = "await_not_a_dir"
    /\ t.waiter = "pending"
    /\ tasks' = Replace(tasks, t, [t EXCEPT !.waiter = "result"])
    /\ ev' = [op |-> "dialog_acknowledged"]
    /\ UNCHANGED <<context, conan_analyses, save_dlg, page_option, active_content_view,
                   active_footer_view, results_vars, speaker, drop_fit>>

\* Mutant of the check of the future in do_it: the future is not looked at.
confirmed_always(t) == TRUE

\* Mutant of the check of the future in result: fut.cancelled() is not looked at.
confirmed_unless_false(t) == t.result # "false"

\* Mutant of the check of the future in result: fut.result() is not looked at.
confirmed_unless_cancelled(t) == t.result # "cancelled"

\* Whether the done callback of a confirmation goes on past its check of the
\* future: not when fut.cancelled() or fut.result() is False.
confirmed(t) == ~(t.result = "cancelled" \/ t.result = "false")

\* The world once the done callback of task t has run: the task is gone and its
\* early_termination_conn disconnected.
WorldWithout(t) == [World EXCEPT !.tasks = @ (-) SetToBag({t})]

\* Mutant of result: the listener is disconnected only past the check of the
\* future.
early_termination_conn_disconnect_if_confirmed(t) ==
    IF confirmed(t) THEN [t EXCEPT !.conn = FALSE] ELSE t

\* early_termination_conn.disconnect(), the first statement of result.
early_termination_conn_disconnect(t) == [t EXCEPT !.conn = FALSE]

\* result, the done callback of the task of a cancel request.
cancel_result(t) ==
    /\ t.kind = "cancel"
    /\ t.pc = "done"
    /\ IF confirmed(t)
       THEN \E sync \in BOOLEAN : Becomes(cancel_current_analysis(WorldWithout(t), sync))
       ELSE Becomes(WorldWithout(t))
    /\ ev' = [op |-> "cancel_result", response |-> t.response, early |-> t.early,
              fut_cancelled |-> t.result = "cancelled", dlg_open |-> t.dlg_open,
              called_cancel |-> confirmed(t),
              conn |-> early_termination_conn_disconnect(t).conn]
    /\ UNCHANGED <<save_dlg, page_option, active_content_view, active_footer_view,
                   results_vars, speaker, drop_fit>>

\* do_it as the done callback of the task of an exit request.
exit_result(t) ==
    /\ t.kind = "discard"
    /\ t.pc = "done"
    /\ IF confirmed(t)
       THEN \E sync \in BOOLEAN : exit_do_it(WorldWithout(t), sync)
       ELSE /\ Becomes(WorldWithout(t))
            /\ UNCHANGED <<page_option, active_content_view, active_footer_view>>
    /\ ev' = [op |-> "exit_result", response |-> t.response,
              fut_cancelled |-> t.result = "cancelled", cleared |-> confirmed(t)]
    /\ UNCHANGED <<save_dlg, results_vars, speaker, drop_fit>>

\* do_it, the done callback of the task of a save request: the call of
\* Context.save_current_analysis it makes, if any.
save_result(t) ==
    /\ t.kind = "save"
    /\ t.pc = "done"
    /\ IF t.result = "options"
       THEN LET r == save_current_analysis(WorldWithout(t))
            IN  /\ Becomes(r.world)
                /\ ev' = [op |-> "save_result", called_save |-> TRUE,
                          fut_cancelled |-> FALSE,
                          raised |-> r.raised, save_drops |-> r.save_drops,
                          second |-> t.second]
       ELSE /\ Becomes(WorldWithout(t))
            /\ ev' = [op |-> "save_result", called_save |-> FALSE,
                      fut_cancelled |-> t.result = "cancelled",
                      raised |-> IF t.result = "error" THEN "error" ELSE "none",
                      save_drops |-> FALSE, second |-> t.second]
    /\ UNCHANGED <<save_dlg, page_option, active_content_view, active_footer_view,
                   results_vars, speaker, drop_fit>>

\* A ConanAnalysis finishes: its bn_done becomes true.
analysis_done(a) ==
    /\ a \in 1..Len(conan_analyses)
    /\ ~conan_analyses[a].bn_done
    /\ Becomes(analysis_set_done(World, a))
    /\ ev' = [op |-> "analysis_done", analysis |-> a]
    /\ UNCHANGED <<save_dlg, page_option, active_content_view, active_footer_view,
                   results_vars, speaker, drop_fit>>

\* A task that is not done is cancelled by something other than the presenter
\* (asyncio.Task.cancel); the done callbacks test fut.cancelled() for this.
task_cancelled(t) ==
    /\ t.pc # "done"
    /\ ~cancelled_now(t)
    /\ tasks' = Replace(tasks, t, task_cancel(t))
    /\ ev' = [op |-> "task_cancelled", kind |-> t.kind]
    /\ UNCHANGED <<context, conan_analyses, save_dlg, page_option, active_content_view,
                   active_footer_view, results_vars, speaker, drop_fit>>

ConanInit ==
    /\ context = [current_analysis_value |-> None,
                  current_analysis_saved |-> FALSE,
                  bn_current_analysis_done |-> FALSE,
                  analysis_unbind_tasks |-> {},
                  results_explorer_analysis |-> None]
    /\ conan_analyses = <<>>
    /\ tasks = EmptyBag
    /\ save_dlg = None
    /\ page_option = [p \in Pages |-> p = "image_acquisition"]
    /\ active_content_view = "image_acquisition"
    /\ active_footer_view = "image_acquisition"

(***************************************************************************)
(* ConanSpeaker (conan.py).  do_activate and do_deactivate are called by   *)
(* the owner of the speaker; the loop runs each scheduled _do_activate,    *)
(* which has no await, in one step.                                        *)
(***************************************************************************)
\* The objects an activation creates and registers for cleanup, in that order.
ActivationObjects == <<"image_acquisition", "context", "root_presenter">>

\* The destroy callables _do_activate appends for its n-th run.
cleanup_tasks_of(n) == [k \in 1..Len(ActivationObjects) |-> <<n, ActivationObjects[k]>>]

\* do_activate: a task running _do_activate is created.
do_activate ==
    /\ speaker.activate_calls < MaxActivations
    /\ speaker' = [speaker EXCEPT !.scheduled = @ + 1, !.activate_calls = @ + 1,
                                  !.last_call = "do_activate"]
    /\ ev' = [op |-> "do_activate"]
    /\ UNCHANGED <<results_vars, conan_vars, drop_fit>>

\* The loop runs a scheduled _do_activate.
speaker_do_activate ==
    /\ speaker.scheduled > 0
    /\ LET n == speaker.created + 1
       IN  speaker' = [speaker EXCEPT
                         !.scheduled = @ - 1,
                         !.active = TRUE,
                         !.cleanup_tasks = cleanup_tasks_of(n),
                         !.created = n,
                         !.destroyed = [o \in (DOMAIN @) \cup Range(cleanup_tasks_of(n)) |->
                                           IF o \in DOMAIN @ THEN @[o] ELSE 0]]
    /\ ev' = [op |-> "_do_activate"]
    /\ UNCHANGED <<results_vars, conan_vars, drop_fit>>

\* for f in self.__cleanup_tasks: f(): each destroy is called.
run_cleanup_tasks(destroyed, cleanup_tasks) ==
    [o \in DOMAIN destroyed |->
        destroyed[o] + Cardinality({k \in 1..Len(cleanup_tasks) : cleanup_tasks[k] = o})]

do_deactivate ==
    /\ IF ~speaker.active
       THEN speaker' = [speaker EXCEPT !.last_call = "do_deactivate"]
       ELSE speaker' = [speaker EXCEPT
                          !.destroyed = run_cleanup_tasks(@, speaker.cleanup_tasks),
                          !.cleanup_tasks = <<>>,
                          !.active = FALSE,
                          !.last_call = "do_deactivate"]
    /\ ev' = [op |-> "do_deactivate", was_active |-> speaker.active]
    /\ UNCHANGED <<results_vars, conan_vars, drop_fit>>

\* scheduled: the _do_activate tasks that have not run; activate_calls, created,
\* destroyed (object -> calls of its destroy) and last_call are history.
SpeakerInit ==
    speaker = [active |-> FALSE, cleanup_tasks |-> <<>>, scheduled |-> 0,
               activate_calls |-> 0, created |-> 0, destroyed |-> <<>>,
               last_call |-> "none"]

SpeakerNext ==
    \/ do_activate
    \/ speaker_do_activate
    \/ do_deactivate

(***************************************************************************)
(* DropFitView and DropFitPresenter (profile_fit/component.py).  A profile *)
(* is None or an array of points (x, y); a line has the data it plots and  *)
(* its visibility.  _figure_canvas.draw() redraws and changes neither.     *)
(***************************************************************************)
NoProfile == [none |-> TRUE]

Profiles ==
    {NoProfile} \cup
    {[none |-> FALSE, points |-> a] :
        a \in SeqsUpTo((0..MaxCoord) \X (0..MaxCoord), MaxProfileLen)}

\* profile.T: the row of the x and the row of the y of the points.
transpose(profile) ==
    <<[k \in 1..Len(profile.points) |-> profile.points[k][1]],
      [k \in 1..Len(profile.points) |-> profile.points[k][2]]>>

\* DropFitView.set_drop_profile_extract
set_drop_profile_extract(view, profile) ==
    IF profile.none
    THEN [view EXCEPT !.profile_fit_line.visible = FALSE]
    ELSE [view EXCEPT !.profile_fit_line = [data |-> transpose(profile), visible |-> TRUE]]

\* DropFitView.set_drop_profile_fit
set_drop_profile_fit(view, profile) ==
    IF profile.none
    THEN [view EXCEPT !.profile_extract_line.visible = FALSE]
    ELSE [view EXCEPT !.profile_extract_line = [data |-> transpose(profile),
                                                visible |-> TRUE]]

\* in_drop_profile_extract is set: on_changed runs
\* _hdl_drop_profile_extract_changed, which gives the view the new value.
hdl_drop_profile_extract_changed(profile) ==
    /\ LET bound == [drop_fit EXCEPT !.bn_drop_profile_extract = profile]
       IN  drop_fit' = set_drop_profile_extract(bound, bound.bn_drop_profile_extract)
    /\ ev' = [op |-> "drop_profile_extract_changed"]
    /\ UNCHANGED <<results_vars, conan_vars, speaker>>

\* in_drop_profile_fit is set: on_changed runs _hdl_drop_profile_fit_changed.
hdl_drop_profile_fit_changed(profile) ==
    /\ LET bound == [drop_fit EXCEPT !.bn_drop_profile_fit = profile]
       IN  drop_fit' = set_drop_profile_fit(bound, bound.bn_drop_profile_fit)
    /\ ev' = [op |-> "drop_profile_fit_changed"]
    /\ UNCHANGED <<results_vars, conan_vars, speaker>>

\* The view as _do_init leaves it: the two lines are plotted with no data, and
\* view_ready has run the two handlers on the bindables, which hold no profile.
DropFitInit ==
    drop_fit =
       set_drop_profile_fit(
          set_drop_profile_extract(
             [bn_drop_profile_extract |-> NoProfile,
              bn_drop_profile_fit |-> NoProfile,
              profile_extract_line |-> [data |-> <<<<>>, <<>>>>, visible |-> TRUE],
              profile_fit_line |-> [data |-> <<<<>>, <<>>>>, visible |-> TRUE]],
             NoProfile),
          NoProfile)

DropFitNext ==
    \/ \E profile \in Profiles : hdl_drop_profile_extract_changed(profile)
    \/ \E profile \in Profiles : hdl_drop_profile_fit_changed(profile)

Init ==
    /\ ResultsInit
    /\ ConanInit
    /\ SpeakerInit
    /\ DropFitInit
    /\ ev = [op |-> "init"]

\* The analysis set and the members' status change; the time stamps stay as set.
ResultsNext ==
    \/ \E analyses \in SeqsUpTo(AnalysisIds, MaxSeqLen) : SetAnalyses(analyses)
    \/ \E a \in AnalysisIds, d \in BOOLEAN, c \in BOOLEAN : StatusChanged(a, d, c)

ResultsSpec == Init /\ [][ResultsNext]_vars

\* The analysis set and the members' time stamps change; the status flags stay.
TimingNext ==
    \/ \E analyses \in SeqsUpTo(AnalysisIds, MaxSeqLen) : SetAnalyses(analyses)
    \/ \E a \in AnalysisIds, t \in Times : TimeStartChanged(a, t)
    \/ \E a \in AnalysisIds, t \in Times : TimeEstCompleteChanged(a, t)

TimingSpec == Init /\ [][TimingNext]_vars

\* The contact-angle session: wizard navigation, the requests of the results
\* footer, the dialogs' tasks and the analyses finishing.
ConanNext ==
    \/ \E valid \in BOOLEAN : AcquisitionNext(valid)
    \/ ProcessingBack
    \/ \E valid \in BOOLEAN : user_wants_to_start_analysis(valid)
    \/ user_wants_to_cancel_analysis
    \/ user_wants_to_exit_analysis
    \/ user_wants_to_save_analysis
    \/ \E t \in BagToSet(tasks) : ask_user_confirm_cancel_analysis(t)
    \/ \E t \in BagToSet(tasks) : ask_user_confirm_discard_analysis_results(t)
    \/ \E t \in BagToSet(tasks), path \in PathKinds : ask_user_save_analysis(t, path)
    \/ \E t \in BagToSet(tasks), response \in {"YES", "NO"} : dialog_response(t, response)
    \/ \E t \in BagToSet(tasks), accept \in BOOLEAN : user_finished_editing(t, accept)
    \/ \E t \in BagToSet(tasks) : dialog_acknowledged(t)
    \/ \E t \in BagToSet(tasks) : cancel_result(t)
    \/ \E t \in BagToSet(tasks) : exit_result(t)
    \/ \E t \in BagToSet(tasks) : save_result(t)
    \/ \E a \in ConanAnalysisIds : analysis_done(a)

ConanSpec == Init /\ [][ConanNext]_vars

SpeakerSpec == Init /\ [][SpeakerNext]_vars

DropFitSpec == Init /\ [][DropFitNext]_vars

(***************************************************************************)
(* IFTImageProcessingPagePresenter (image_processing.py): the next of its  *)
(* footer.  next_action is a callable given by the owner of the page; the  *)
(* step records whether it was called.                                     *)
(***************************************************************************)
\* _hdl_footer_next: what the handler ends with.
hdl_footer_next(validate) == IF ~validate THEN "return" ELSE "next_action"

IFTFooterNext(valid) ==
    /\ ev' = [op |-> "ift_footer_next", valid |-> valid,
              next_action_called |-> hdl_footer_next(valid) = "next_action"]
    /\ UNCHANGED <<results_vars, conan_vars, speaker, drop_fit>>

\* The wizards of both applications.
WizardNext ==
    \/ ConanNext
    \/ \E valid \in BOOLEAN : IFTFooterNext(valid)

WizardSpec == Init /\ [][WizardNext]_vars

(***************************************************************************)
(* Context on its own: its public methods called in any order, as by any   *)
(* caller, and the analyses it created finishing at any time.              *)
(***************************************************************************)
Context_new_analysis ==
    /\ Len(conan_analyses) < MaxConanAnalyses
    /\ Becomes(new_analysis(World))
    /\ ev' = [op |-> "new_analysis"]
    /\ UNCHANGED <<save_dlg, page_option, active_content_view, active_footer_view,
                   results_vars, speaker, drop_fit>>

Context_clear_current_analysis ==
    /\ \E sync \in BOOLEAN : Becomes(clear_current_analysis(World, sync))
    /\ ev' = [op |-> "clear_current_analysis"]
    /\ UNCHANGED <<save_dlg, page_option, active_content_view, active_footer_view,
                   results_vars, speaker, drop_fit>>

Context_cancel_current_analysis ==
    /\ \E sync \in BOOLEAN : Becomes(cancel_current_analysis(World, sync))
    /\ ev' = [op |-> "cancel_current_analysis"]
    /\ UNCHANGED <<save_dlg, page_option, active_content_view, active_footer_view,
                   results_vars, speaker, drop_fit>>

Context_save_current_analysis ==
    /\ LET r == save_current_analysis(World)
       IN  /\ Becomes(r.world)
           /\ ev' = [op |-> "save_current_analysis", raised |-> r.raised,
                     save_drops |-> r.save_drops]
    /\ UNCHANGED <<save_dlg, page_option, active_content_view, active_footer_view,
                   results_vars, speaker, drop_fit>>

ContextNext ==
    \/ Context_new_analysis
    \/ Context_clear_current_analysis
    \/ Context_cancel_current_analysis
    \/ Context_save_current_analysis
    \/ \E a \in ConanAnalysisIds : analysis_done(a)

ContextSpec == Init /\ [][ContextNext]_vars

\* The presenter with tasks that may also be cancelled from outside.
ConanCancelNext ==
    \/ ConanNext
    \/ \E t \in BagToSet(tasks) : task_cancelled(t)

ConanCancelSpec == Init /\ [][ConanCancelNext]_vars

(***************************************************************************)
(* Claims about IFTResultsModel, checked under ResultsSpec.                *)
(***************************************************************************)
AnyCancelled == \E k \in 1..Len(bn_analyses) : is_cancelled[bn_analyses[k]]
AllDone == \A k \in 1..Len(bn_analyses) : is_done[bn_analyses[k]]
AnalysisEvents == {"bn_status", "bn_is_done", "bn_time_start", "bn_time_est_complete"}

\* C1: whenever bn_analyses is empty, bn_fitting_status reads NO_ANALYSES.
C1_EmptyIsNoAnalyses ==
    Len(bn_analyses) = 0 => get_fitting_status = NO_ANALYSES

\* C1 witness: the set was emptied by removing analyses, one of them done and
\* one cancelled.
C1_Witness ==
    /\ bn_analyses = <<>>
    /\ ev.op = "set_analyses" /\ ev.untracked # {}
    /\ \E a \in ev.untracked : is_done[a]
    /\ \E a \in ev.untracked : is_cancelled[a]

\* C2: if at least one analysis of the set is cancelled, bn_fitting_status reads
\* CANCELLED, whatever the flags of the others.
C2_AnyCancelledIsCancelled ==
    AnyCancelled => get_fitting_status = CANCELLED

\* C2 witness: two analyses, all done, exactly one cancelled.
C2_Witness ==
    /\ Len(bn_analyses) = 2
    /\ AllDone
    /\ is_cancelled[bn_analyses[1]] /\ ~is_cancelled[bn_analyses[2]]
    /\ get_fitting_status = CANCELLED

\* C3 as claimed: for every value of the set, FINISHED iff all analyses are done
\* and none is cancelled.
C3_Original ==
    get_fitting_status = FINISHED <=> (AllDone /\ ~AnyCancelled)

\* C3 as amended: for every non-empty set, FINISHED iff all analyses are done and
\* none is cancelled; for the empty set the status is not FINISHED.
C3_FinishedIffNonEmptyAllDone ==
    /\ Len(bn_analyses) > 0 =>
          (get_fitting_status = FINISHED <=> (AllDone /\ ~AnyCancelled))
    /\ Len(bn_analyses) = 0 => get_fitting_status # FINISHED

\* C3 witness: two different analyses, both done, none cancelled.
C3_Witness ==
    /\ Len(bn_analyses) = 2 /\ bn_analyses[1] # bn_analyses[2]
    /\ AllDone /\ ~AnyCancelled
    /\ get_fitting_status = FINISHED

\* C4: FITTING exactly when the set is non-empty, no analysis is cancelled and
\* one is not done; the four statuses are decided in the order NO_ANALYSES,
\* CANCELLED, FINISHED, FITTING.
C4_FittingAndPriority ==
    /\ get_fitting_status = FITTING <=>
          (Len(bn_analyses) > 0 /\ ~AnyCancelled /\ ~AllDone)
    /\ get_fitting_status =
          (CASE Len(bn_analyses) = 0 -> NO_ANALYSES
             [] Len(bn_analyses) > 0 /\ AnyCancelled -> CANCELLED
             [] Len(bn_analyses) > 0 /\ ~AnyCancelled /\ AllDone -> FINISHED
             [] OTHER -> FITTING)

\* C4 witness: two different analyses, none cancelled, one done and one not.
C4_Witness ==
    /\ Len(bn_analyses) = 2
    /\ ~AnyCancelled
    /\ is_done[bn_analyses[1]] /\ ~is_done[bn_analyses[2]]
    /\ get_fitting_status = FITTING

\* C6: an analysis of the set has its four change events connected to the
\* derived bindables; an analysis outside the set has no live connection, so
\* that firing any of its four change events pokes nothing, and no untrack task
\* of it is stored; a status change of an analysis outside the set poked nothing.
C6_TrackUntrack ==
    /\ \A a \in Range(bn_analyses) :
          /\ fire(a, "bn_status") = {"bn_fitting_status"}
          /\ fire(a, "bn_is_done") = {"bn_analyses_completion_progress"}
          /\ fire(a, "bn_time_start") = {"bn_analyses_time_start"}
          /\ fire(a, "bn_time_est_complete") = {"bn_analyses_time_est_complete"}
    /\ \A a \in AnalysisIds \ Range(bn_analyses) :
          /\ \A e \in AnalysisEvents : fire(a, e) = {}
          /\ a \notin DOMAIN analysis_untrack_tasks
    /\ (ev.op = "status_changed" /\ ev.analysis \notin Range(bn_analyses)) => poked = {}

\* C6 witness: an analysis was removed from the set and untracked while another
\* stays tracked, and then changed its status and done flag.
C6_Witness ==
    /\ ev.op = "status_changed"
    /\ ev.events = {"bn_status", "bn_is_done"}
    /\ ev.analysis \notin Range(bn_analyses)
    /\ ev.just_untracked
    /\ Len(tracked_analyses) > 0

\* What Python raises in place of a value.
PyErrors == {"ValueError", "ZeroDivisionError"}

\* C20: for an empty analysis set bn_analyses_time_start,
\* bn_analyses_time_est_complete, bn_analyses_completion_progress,
\* calculate_time_elapsed and calculate_time_remaining all yield NaN, whatever the
\* analyses outside the set hold; none of them raises the error of a min, max or
\* division over nothing.
C20_EmptyTimingIsNaN ==
    Len(bn_analyses) = 0 =>
       /\ get_analyses_time_start = NaN
       /\ get_analyses_time_est_complete = NaN
       /\ get_analyses_completion_progress = NaN
       /\ \A of \in [AnalysisIds -> Times] :
             /\ calculate_time_elapsed(of) = NaN
             /\ calculate_time_remaining(of) = NaN
       /\ NaN \notin PyErrors

\* C20 witness: the set was emptied after its analyses had been tracked and had
\* changed their times.
C20_Witness ==
    /\ Len(bn_analyses) = 0
    /\ ev.op = "set_analyses"
    /\ ev.untracked # {}
    /\ \E a \in AnalysisIds : time_start[a] # 0 /\ time_est_complete[a] # 0
    /\ get_analyses_time_start = NaN

\* C21: for a non-empty analysis set bn_analyses_time_start is the bn_time_start
\* of an analysis of the set and no analysis of the set has a smaller one;
\* bn_analyses_time_est_complete is the bn_time_est_complete of an analysis of
\* the set and no analysis of the set has a greater one.
C21_MinStartMaxEstComplete ==
    Len(bn_analyses) > 0 =>
       /\ \E a \in Range(bn_analyses) : get_analyses_time_start = time_start[a]
       /\ \A a \in Range(bn_analyses) : get_analyses_time_start <= time_start[a]
       /\ \E a \in Range(bn_analyses) :
             get_analyses_time_est_complete = time_est_complete[a]
       /\ \A a \in Range(bn_analyses) :
             get_analyses_time_est_complete >= time_est_complete[a]

\* C21 witness: two analyses with different times, the first of the sequence
\* holding neither the least start nor the greatest estimated completion.
C21_Witness ==
    /\ Len(bn_analyses) = 2
    /\ time_start[bn_analyses[1]] > time_start[bn_analyses[2]]
    /\ time_est_complete[bn_analyses[1]] < time_est_complete[bn_analyses[2]]
    /\ get_analyses_time_start = time_start[bn_analyses[2]]
    /\ get_analyses_time_est_complete = time_est_complete[bn_analyses[2]]

\* The members of the sequence whose bn_is_done is true.
DonePositions == {k \in 1..Len(bn_analyses) : is_done[bn_analyses[k]]}

\* The fraction num/den is the number 1.
IsOne(fraction) == fraction.num = fraction.den

\* C22: for a non-empty analysis set bn_analyses_completion_progress is the number
\* of members with bn_is_done true divided by the number of members; it is 1
\* exactly when all members are done, and it is 1 whenever bn_fitting_status is
\* FINISHED.
C22_CompletionProgress ==
    Len(bn_analyses) > 0 =>
       /\ get_analyses_completion_progress =
             [num |-> Cardinality(DonePositions), den |-> Len(bn_analyses)]
       /\ IsOne(get_analyses_completion_progress) <=> AllDone
       /\ get_fitting_status = FINISHED => IsOne(get_analyses_completion_progress)

\* C22 witness: two analyses, both done and none cancelled: the status is FINISHED
\* and the progress 2/2.
C22_Witness ==
    /\ Len(bn_analyses) = 2
    /\ bn_analyses[1] # bn_analyses[2]
    /\ get_fitting_status = FINISHED
    /\ get_analyses_completion_progress = [num |-> 2, den |-> 2]

\* The values of the timing aggregates and of the progress, with -1 and 0/0
\* standing for NaN.
TimeStartValue == IF Len(bn_analyses) = 0 THEN -1 ELSE get_analyses_time_start
TimeEstCompleteValue == IF Len(bn_analyses) = 0 THEN -1 ELSE get_analyses_time_est_complete
ProgressValue ==
    IF Len(bn_analyses) = 0 THEN [num |-> 0, den |-> 0]
    ELSE get_analyses_completion_progress

\* The two fractions are different numbers, or one only is NaN.
FractionsDiffer(f, g) ==
    \/ (f.den = 0) # (g.den = 0)
    \/ f.den # 0 /\ g.den # 0 /\ f.num * g.den # g.num * f.den

\* C23: every step that changes the value of bn_fitting_status,
\* bn_analyses_completion_progress, bn_analyses_time_start or
\* bn_analyses_time_est_complete pokes that bindable, also a step that only
\* removes analyses from the set.
C23_Renotified ==
    [][/\ get_fitting_status' # get_fitting_status => "bn_fitting_status" \in poked'
       /\ FractionsDiffer(ProgressValue, ProgressValue')
             => "bn_analyses_completion_progress" \in poked'
       /\ TimeStartValue' # TimeStartValue => "bn_analyses_time_start" \in poked'
       /\ TimeEstCompleteValue' # TimeEstCompleteValue
             => "bn_analyses_time_est_complete" \in poked']_vars

\* The live connections made for an analysis.
ConnectionsOf(analysis) == {c \in connections : c.analysis = analysis}

\* C28: after every handled change of bn_analyses the tracked analyses are exactly
\* the distinct analyses of the sequence, each of them once; the keys of
\* _analysis_untrack_tasks are the tracked analyses; each tracked analysis has
\* exactly four live connections, those its stored untrack tasks disconnect, and
\* no other analysis has any.
C28_TrackedExactlyDistinct ==
    /\ Range(tracked_analyses) = Range(bn_analyses)
    /\ \A i, j \in 1..Len(tracked_analyses) :
          tracked_analyses[i] = tracked_analyses[j] => i = j
    /\ DOMAIN analysis_untrack_tasks = Range(tracked_analyses)
    /\ \A a \in Range(tracked_analyses) :
          /\ Cardinality(ConnectionsOf(a)) = 4
          /\ analysis_untrack_tasks[a] = ConnectionsOf(a)
    /\ \A c \in connections : c.analysis \in Range(tracked_analyses)

\* C28 witness: the sequence was set to one analysis occurring twice, which was
\* not tracked before, while the analysis tracked before was untracked.
C28_Witness ==
    /\ ev.op = "set_analyses"
    /\ Len(bn_analyses) = 2
    /\ bn_analyses[1] = bn_analyses[2]
    /\ ev.untracked # {}
    /\ poked = DerivedBindables
    /\ Len(tracked_analyses) = 1

(***************************************************************************)
(* Properties of the analysis session (conan.py).                          *)
(***************************************************************************)
\* The current analysis exists and its own done flag is true.
CurrentAnalysisIsDone ==
    /\ context.current_analysis_value # None
    /\ conan_analyses[context.current_analysis_value].bn_done

\* The cancel-confirmation dialogs that are showing.
CancelDialogsPending ==
    CountTasks(tasks, LAMBDA t : t.kind = "cancel" /\ t.dlg_open)

\* The save-options dialogs that are open.
SaverDialogsOpen ==
    CountTasks(tasks, LAMBDA t : t.kind = "save" /\ t.pc = "await_save_dlg" /\ t.dlg_open)

\* The calls of ConanAnalysis.cancel made by the step.
CancelCallsInStep ==
    {a \in 1..Len(conan_analyses) :
        conan_analyses'[a].cancel_called /\ ~conan_analyses[a].cancel_called}

\* C5: a call of save_current_analysis made when there is no current analysis
\* raises the ValueError of that case, one made when the current analysis's done
\* flag is false raises the ValueError of that case; in both cases save_drops is
\* not called and current_analysis_saved keeps its value.
C5_SaveRejected ==
    [][(ev'.op = "save_result" /\ ev'.called_save /\ ~CurrentAnalysisIsDone) =>
          /\ ev'.raised = IF context.current_analysis_value = None
                          THEN "no_current_analysis" ELSE "not_done"
          /\ ~ev'.save_drops
          /\ context'.current_analysis_saved = context.current_analysis_saved
          /\ context' = context]_vars

\* C5 witness: save_current_analysis was called while the current analysis, started
\* after the save dialog had been opened, was not done, and raised.
C5_Witness ==
    /\ ev.op = "save_result"
    /\ ev.called_save
    /\ ev.raised = "not_done"
    /\ ~ev.save_drops
    /\ context.current_analysis_value # None
    /\ ~context.current_analysis_saved

\* C7: a cancel request made when there is no current analysis or when it is done
\* changes nothing; the done callback of a cancel request calls
\* cancel_current_analysis only if the user's response was YES, and on a NO no
\* analysis is cancelled; apart from the exit flow, an analysis is cancelled only
\* by such a confirmed request.
C7_CancelOnlyAfterYes ==
    [][/\ (ev'.op = "cancel_request" /\ (~current_analysis_exists \/ current_analysis_done))
            => (~ev'.created /\ UNCHANGED <<context, conan_analyses, tasks, save_dlg>>)
       /\ (ev'.op = "cancel_result" /\ ev'.called_cancel) => ev'.response = "YES"
       /\ (ev'.op = "cancel_result" /\ ev'.response # "YES")
            => (~ev'.called_cancel /\ conan_analyses' = conan_analyses)
       /\ (CancelCallsInStep # {} /\ ev'.op \notin {"exit_request", "exit_result"})
            => (ev'.op = "cancel_result" /\ ev'.called_cancel /\ ev'.response = "YES")]_vars

\* C7 witness: the user answered YES and the done callback cancelled the current
\* analysis, which was not done.
C7_Witness ==
    /\ ev.op = "cancel_result"
    /\ ev.called_cancel
    /\ ev.response = "YES"
    /\ ~ev.early
    /\ context.current_analysis_value # None
    /\ conan_analyses[context.current_analysis_value].cancel_called

\* C8: once the current analysis has become done while the confirmation of a cancel
\* request was unfinished, the confirmation task is cancelled: it is woken with
\* a CancelledError at its next step, and once it is done its future is
\* cancelled and its dialog destroyed; the done callback of that request does not
\* call cancel_current_analysis.
C8_EarlyTermination ==
    /\ \A t \in BagToSet(tasks) :
          (t.kind = "cancel" /\ t.early) =>
             IF t.pc = "done" THEN t.result = "cancelled" /\ ~t.dlg_open
             ELSE cancelled_now(t)
    /\ (ev.op = "cancel_result" /\ ev.early) =>
          (ev.fut_cancelled /\ ~ev.dlg_open /\ ~ev.called_cancel)

\* C8 witness: the analysis became done while the dialog was showing, and the done
\* callback of the request has run.
C8_Witness ==
    /\ ev.op = "cancel_result"
    /\ ev.early
    /\ ev.fut_cancelled
    /\ ev.response = "none"
    /\ CurrentAnalysisIsDone

\* C9: at most one cancel-confirmation dialog is pending, a cancel request made
\* while one is pending creating none, and the done callback of a request calls
\* cancel_current_analysis only for a YES of its own dialog.
C9_AtMostOneCancelDialog ==
    /\ CancelDialogsPending <= 1
    /\ (ev.op = "cancel_result" /\ ev.called_cancel) => ev.response = "YES"

\* C10: at most one save-options dialog is open, and a save request made while an
\* earlier save flow was pending never opens one and never leads to a call of
\* save_current_analysis.
C10_AtMostOneSaverDialog ==
    /\ SaverDialogsOpen <= 1
    /\ \A t \in BagToSet(tasks) :
          (t.kind = "save" /\ t.second) => (~t.dlg_open /\ t.result \in {"none", "cancelled"})
    /\ (ev.op = "save_result" /\ ev.second) => ~ev.called_save

\* C11: the done callback of a cancel, exit or save request whose task ended
\* cancelled calls none of cancel_current_analysis, clear_current_analysis and
\* save_current_analysis, leaves the Context, the analyses, the page options and
\* the active views as they were, and raises nothing.
C11_CancelledMeansNo ==
    [][(ev'.op \in {"cancel_result", "exit_result", "save_result"} /\ ev'.fut_cancelled) =>
          /\ ev'.op = "cancel_result" => ~ev'.called_cancel
          /\ ev'.op = "exit_result" => ~ev'.cleared
          /\ ev'.op = "save_result" => (~ev'.called_save /\ ev'.raised = "none")
          /\ UNCHANGED <<context, conan_analyses, save_dlg, page_option,
                         active_content_view, active_footer_view>>]_vars

\* C11 witness: the task of an exit request was cancelled while its dialog was
\* showing, and its done callback has run; the analysis is still current.
C11_Witness ==
    /\ ev.op = "exit_result"
    /\ ev.fut_cancelled
    /\ ~ev.cleared
    /\ CurrentAnalysisIsDone
    /\ page_option["results"]

\* The tasks the step took out of the bag, and those it put in.
TasksBefore == {t \in BagToSet(tasks) : CopiesIn(t, tasks) > CopiesIn(t, tasks')}
TasksAfter == {u \in BagToSet(tasks') : CopiesIn(u, tasks') > CopiesIn(u, tasks)}

\* C12: a step of the save flow that finds the accepted save location to exist and
\* not to be a directory shows the error dialog and awaits its acknowledgement:
\* the task is not done, so it holds neither options nor an exception; the step
\* that follows the acknowledgement opens the save-options dialog again.
C12_NotADirectory ==
    [][ev'.op = "save_step" =>
          /\ ev'.path = "not_a_dir" =>
                \A u \in TasksAfter :
                    u.pc = "await_not_a_dir" /\ u.waiter = "pending" /\ u.result = "none"
          /\ ev'.from = "await_not_a_dir" =>
                /\ \A t \in TasksBefore : t.waiter = "result"
                /\ \A u \in TasksAfter :
                      /\ u.pc = "await_save_dlg" /\ u.dlg_open
                      /\ u.waiter = "pending" /\ u.result = "none"
                /\ save_dlg' # None]_vars

\* C12 witness: the error dialog was acknowledged and the save-options dialog is
\* open again.
C12_Witness ==
    /\ ev.op = "save_step"
    /\ ev.from = "await_not_a_dir"
    /\ SaverDialogsOpen = 1
    /\ save_dlg # None

\* The step is one in which the exit flow executes clear_current_analysis.
ExitClearsInStep ==
    \/ ev'.op = "exit_result" /\ ev'.cleared
    \/ ev'.op = "exit_request" /\ ~ev'.raised /\ ~ev'.dialog

\* C13: whenever the exit flow executes clear_current_analysis while a current
\* analysis exists, that analysis is done: no analysis that is still fitting is
\* cleared, and thereby cancelled, by a discard confirmation.
C13_ClearOnlyWhenDone ==
    [][(ExitClearsInStep /\ context.current_analysis_value # None)
          => conan_analyses[context.current_analysis_value].bn_done]_vars

\* C14: whenever _user_wants_to_start_analysis calls new_analysis no current
\* analysis exists, and the call makes a newly created analysis the current one;
\* while the start action is available a current analysis exists only on the
\* results page.
C14_NewOnlyWithoutCurrent ==
    [][/\ (ev'.op = "start" /\ ev'.valid) =>
             /\ context.current_analysis_value = None
             /\ context'.current_analysis_value = Len(conan_analyses) + 1
             /\ Len(conan_analyses') = Len(conan_analyses) + 1
       /\ active_footer_view' # "results" => context'.current_analysis_value = None]_vars

\* C14 witness: a second analysis was started after the first had been cleared by
\* the exit flow.
C14_Witness ==
    /\ ev.op = "start"
    /\ ev.valid
    /\ context.current_analysis_value = 2
    /\ ~conan_analyses[2].bn_done
    /\ page_option["results"]

\* C17: an exit request made when the current analysis has been saved clears it
\* and activates the image-processing page in the same call, creating no task and
\* no dialog; one made when it has not been saved changes nothing but creates the
\* task whose first step shows the discard dialog; the done callback of that task
\* clears the analysis and activates the image-processing page if and only if
\* the response was YES, and otherwise leaves the Context, the page options and
\* the active views as they were.
C17_ExitFlow ==
    [][/\ (ev'.op = "exit_request" /\ ~ev'.raised) =>
             IF context.current_analysis_saved
             THEN /\ ~ev'.dialog
                  /\ tasks' = tasks
                  /\ context'.current_analysis_value = None
                  /\ page_option'["image_processing"]
                  /\ active_footer_view' = "image_processing"
             ELSE /\ ev'.dialog
                  /\ \E u \in TasksAfter : u.kind = "discard" /\ u.pc = "start"
                  /\ UNCHANGED <<context, page_option, active_content_view,
                                 active_footer_view>>
       /\ ev'.op = "confirm_discard_step" =>
             /\ \E u \in TasksAfter : u.kind = "discard" /\ u.pc # "start"
             /\ \A u \in TasksAfter : u.pc # "start" =>
                   \/ u.pc = "await_response" /\ u.dlg_open /\ u.waiter = "pending"
                   \/ u.pc = "done" /\ ~u.dlg_open
       /\ ev'.op = "exit_result" =>
             /\ ev'.cleared <=> ev'.response = "YES"
             /\ IF ev'.response = "YES"
                THEN /\ context'.current_analysis_value = None
                     /\ ~context'.current_analysis_saved
                     /\ page_option'["image_processing"]
                     /\ active_footer_view' = "image_processing"
                ELSE UNCHANGED <<context, conan_analyses, page_option,
                                 active_content_view, active_footer_view>>]_vars

\* C17 witness: the user answered NO to the discard dialog; the done and unsaved
\* analysis is still current and the results page still active.
C17_Witness ==
    /\ ev.op = "exit_result"
    /\ ev.response = "NO"
    /\ ~ev.cleared
    /\ CurrentAnalysisIsDone
    /\ ~context.current_analysis_saved
    /\ page_option["results"]

\* C19: exactly one of the three page options is true, after construction and
\* after every next, back, start and exit action.
C19_PageOptionsExclusive ==
    Cardinality({p \in Pages : page_option[p]}) = 1

\* C19 witness: the exit flow has set the image-processing option after the
\* results option had been true; it is the only one that is true.
C19_Witness ==
    /\ ev.op = "exit_result"
    /\ ev.cleared
    /\ page_option["image_processing"]
    /\ ~page_option["results"]
    /\ ~page_option["image_acquisition"]

\* C24: a call of save_current_analysis by the done callback of a save flow raises
\* nothing: a current analysis exists and is done whenever the call is made.
C24_SaveCallbackNeverRaises ==
    (ev.op = "save_result" /\ ev.called_save) => (ev.raised = "none" /\ ev.save_drops)

\* C29: the active content view and the active footer view both belong to the
\* page whose option is true; content and footer of different pages are never
\* active together.
C29_ViewsOfTheTruePage ==
    /\ active_content_view = active_footer_view
    /\ page_option[active_content_view]
    /\ \A p \in Pages : page_option[p] => (active_content_view = p /\ active_footer_view = p)

\* C29 witness: back on the image-acquisition page, by the back of the
\* image-processing page, after an analysis had been shown on the results page.
C29_Witness ==
    /\ ev.op = "processing_back"
    /\ Len(conan_analyses) > 0
    /\ page_option["image_acquisition"]
    /\ active_content_view = "image_acquisition"
    /\ active_footer_view = "image_acquisition"

\* C31: a step of the save flow ends the flow with options only if it found the
\* accepted save location missing or an empty directory, or took the answer YES
\* of the clear-directory prompt, which is shown exactly when the accepted
\* location is found to be a non-empty directory; the answer NO opens the
\* save-options dialog again; a rejected save-options dialog ends the flow
\* without options; and do_it calls save_current_analysis only for a flow that
\* ended with options.
C31_SaveOnlyForUsableLocation ==
    [][/\ ev'.op = "save_step" =>
             /\ (\E u \in TasksAfter : u.pc = "done" /\ u.result = "options") =>
                   \/ ev'.path \in {"missing", "empty_dir"}
                   \/ /\ ev'.from = "await_clear_dir"
                      /\ \A t \in TasksBefore : t.response = "YES"
             /\ (\E u \in TasksAfter : u.pc = "await_clear_dir")
                   <=> ev'.path = "nonempty_dir"
             /\ (ev'.from = "await_clear_dir" /\ \A t \in TasksBefore : t.response = "NO") =>
                   /\ \A u \in TasksAfter :
                         u.pc = "await_save_dlg" /\ u.dlg_open /\ u.waiter = "pending"
                   /\ save_dlg' # None
             /\ (ev'.from = "await_save_dlg" /\ \A t \in TasksBefore : t.response = "REJECT") =>
                   \A u \in TasksAfter : u.pc = "done" /\ u.result \in {"none", "error"}
       /\ (ev'.op = "save_result" /\ ev'.called_save) =>
             \A t \in TasksBefore : t.result = "options"
       /\ (ev'.op = "save_result" /\ ~ev'.called_save) =>
             /\ \A t \in TasksBefore : t.result # "options"
             /\ context'.current_analysis_saved = context.current_analysis_saved]_vars

\* C31 witness: the user agreed to clear the non-empty directory and the flow has
\* ended with options.
C31_Witness ==
    /\ ev.op = "save_step"
    /\ ev.from = "await_clear_dir"
    /\ \E t \in BagToSet(tasks) :
          t.kind = "save" /\ t.pc = "done" /\ t.result = "options" /\ t.response = "YES"

\* The cancel requests whose done callback has not run yet.
CancelRequestsUnresolved == CountTasks(tasks, LAMBDA t : t.kind = "cancel")

\* C32: the early-termination listener of a cancel request is connected from the
\* request until the done callback of its confirmation task, which disconnects
\* it whether the task ended with YES, with NO or cancelled; no other task has
\* such a listener, so that none is connected once every request is resolved.
C32_ListenerDisconnected ==
    /\ \A t \in BagToSet(tasks) : t.conn <=> t.kind = "cancel"
    /\ ev.op = "cancel_result" => ~ev.conn

\* C32 witness: the user answered NO, the done callback has run, and no cancel
\* request is left unresolved.
C32_Witness ==
    /\ ev.op = "cancel_result"
    /\ ev.response = "NO"
    /\ ~ev.called_cancel
    /\ ~ev.conn
    /\ CancelRequestsUnresolved = 0

(***************************************************************************)
(* Properties of Context under any order of calls of its methods.          *)
(***************************************************************************)
\* C15: a save_current_analysis that does not raise leaves current_analysis_saved
\* true; new_analysis and clear_current_analysis leave it false;
\* cancel_current_analysis leaves it as it was; and it turns from true to false
\* in no step other than a new_analysis or a clear_current_analysis.
C15_SavedLifecycle ==
    [][/\ (ev'.op = "save_current_analysis" /\ ev'.raised = "none")
             => context'.current_analysis_saved
       /\ ev'.op \in {"new_analysis", "clear_current_analysis"}
             => ~context'.current_analysis_saved
       /\ ev'.op = "cancel_current_analysis"
             => context'.current_analysis_saved = context.current_analysis_saved
       /\ (context.current_analysis_saved /\ ~context'.current_analysis_saved)
             => ev'.op \in {"new_analysis", "clear_current_analysis"}]_vars

\* C15 witness: the saved analysis was cancelled and is still saved.
C15_Witness ==
    /\ ev.op = "cancel_current_analysis"
    /\ context.current_analysis_saved
    /\ conan_analyses[context.current_analysis_value].cancel_called

\* C16: current_analysis_saved is true only if a current analysis exists and its
\* done flag is true.
C16_SavedOnlyIfDone ==
    context.current_analysis_saved => CurrentAnalysisIsDone

\* C16 witness: the current analysis, the second one created, has just been saved.
C16_Witness ==
    /\ ev.op = "save_current_analysis"
    /\ ev.save_drops
    /\ context.current_analysis_saved
    /\ context.current_analysis_value = 2
    /\ CurrentAnalysisIsDone

\* C18: results_explorer.analysis is the current analysis, or None when there is
\* none; bn_current_analysis_done is bound to the current analysis and to no
\* other; and when an analysis that is not the current one becomes done,
\* bn_current_analysis_done keeps its value.
C18_OneCurrentAnalysis ==
    [][/\ context'.results_explorer_analysis = context'.current_analysis_value
       /\ context'.analysis_unbind_tasks =
             IF context'.current_analysis_value = None THEN {}
             ELSE {context'.current_analysis_value}
       /\ (ev'.op = "analysis_done" /\ ev'.analysis # context.current_analysis_value)
             => context'.bn_current_analysis_done = context.bn_current_analysis_done]_vars

\* C18 witness: the first analysis became done after the second had replaced it;
\* bn_current_analysis_done is still false.
C18_Witness ==
    /\ ev.op = "analysis_done"
    /\ ev.analysis = 1
    /\ context.current_analysis_value = 2
    /\ ~conan_analyses[1].cancel_called
    /\ ~conan_analyses[2].bn_done
    /\ ~context.bn_current_analysis_done

\* C25: bn_current_analysis_done is true only if a current analysis exists; it
\* does not remain true after clear_current_analysis of a done analysis.
C25_DoneOnlyIfCurrent ==
    context.bn_current_analysis_done => context.current_analysis_value # None

\* C27: clear_current_analysis calls cancel() of the current analysis if there is
\* one and of no other analysis; afterwards there is no current analysis,
\* results_explorer.analysis is None and current_analysis_saved is false; with no
\* current analysis no cancel is called, and a clear that follows a clear changes
\* nothing.
C27_ClearCurrentAnalysis ==
    [][ev'.op = "clear_current_analysis" =>
         LET cur == context.current_analysis_value
         IN  /\ cur # None => conan_analyses'[cur].cancel_called
             /\ \A a \in DOMAIN conan_analyses :
                    a # cur => conan_analyses'[a] = conan_analyses[a]
             /\ DOMAIN conan_analyses' = DOMAIN conan_analyses
             /\ context'.current_analysis_value = None
             /\ context'.results_explorer_analysis = None
             /\ ~context'.current_analysis_saved
             /\ ev.op = "clear_current_analysis"
                    => (context' = context /\ conan_analyses' = conan_analyses)]_vars

\* C27 witness: the second analysis, unfinished, was cleared: it is cancelled and
\* there is no current analysis; the first one was never cancelled.
C27_Witness ==
    /\ ev.op = "clear_current_analysis"
    /\ Len(conan_analyses) = 2
    /\ conan_analyses[2].cancel_called
    /\ ~conan_analyses[2].bn_done
    /\ ~conan_analyses[1].cancel_called
    /\ context.current_analysis_value = None
    /\ context.results_explorer_analysis = None
    /\ ~context.current_analysis_saved

(***************************************************************************)
(* Properties of ConanSpeaker.                                             *)
(***************************************************************************)
\* The last call was a do_deactivate and every scheduled _do_activate has run.
SpeakerQuiescent == speaker.last_call = "do_deactivate" /\ speaker.scheduled = 0

\* C26: once the last do_deactivate has returned and every scheduled _do_activate
\* has run, the speaker is inactive and every object created by an activation
\* has had its destroy called exactly once.
C26_SpeakerLifecycle ==
    SpeakerQuiescent =>
       /\ ~speaker.active
       /\ \A o \in DOMAIN speaker.destroyed : speaker.destroyed[o] = 1

(***************************************************************************)
(* Properties of the wizards' forward navigation.                          *)
(***************************************************************************)
\* The active page and the current analysis are as they were.
PageAndAnalysisUnchanged ==
    /\ page_option' = page_option
    /\ active_content_view' = active_content_view
    /\ active_footer_view' = active_footer_view
    /\ context' = context
    /\ conan_analyses' = conan_analyses

\* C30: the next of the image-acquisition page switches to image processing, the
\* next of the image-processing page creates a new analysis and switches to
\* results, and the next of IFTImageProcessingPagePresenter calls next_action,
\* each only if validate() returned true; when it returned false the active page
\* and the current analysis are unchanged and next_action is not called.
C30_NextGatedByValidation ==
    [][/\ ev'.op = "acquisition_next" =>
             IF ev'.valid
             THEN /\ page_option'["image_processing"]
                  /\ active_content_view' = "image_processing"
                  /\ context' = context
             ELSE PageAndAnalysisUnchanged
       /\ ev'.op = "start" =>
             IF ev'.valid
             THEN /\ Len(conan_analyses') = Len(conan_analyses) + 1
                  /\ context'.current_analysis_value = Len(conan_analyses')
                  /\ page_option'["results"]
                  /\ active_content_view' = "results"
             ELSE PageAndAnalysisUnchanged
       /\ ev'.op = "ift_footer_next" =>
             /\ ev'.next_action_called = ev'.valid
             /\ PageAndAnalysisUnchanged]_vars

\* C30 witness: on the image-processing page, after an earlier analysis had been
\* left, a next whose validation failed: no analysis is current and the page
\* stays.
C30_Witness ==
    /\ ev.op = "start"
    /\ ~ev.valid
    /\ Len(conan_analyses) = 1
    /\ context.current_analysis_value = None
    /\ active_content_view = "image_processing"
    /\ page_option["image_processing"]

(***************************************************************************)
(* Properties of DropFitView.                                              *)
(***************************************************************************)
\* What a setter makes of its line for the profile it was given.
LineFor(line, profile) ==
    IF profile.none THEN [line EXCEPT !.visible = FALSE]
    ELSE [data |-> transpose(profile), visible |-> TRUE]

\* C33: set_drop_profile_extract changes only the extracted-profile line, to the
\* data of the profile, or hidden when the profile is None, and leaves the
\* fitted-profile line as it was; set_drop_profile_fit changes only the
\* fitted-profile line and leaves the extracted-profile line as it was.
C33_EachSetterItsOwnLine ==
    [][/\ ev'.op = "drop_profile_extract_changed" =>
             /\ drop_fit'.profile_fit_line = drop_fit.profile_fit_line
             /\ drop_fit'.profile_extract_line =
                   LineFor(drop_fit.profile_extract_line, drop_fit'.bn_drop_profile_extract)
       /\ ev'.op = "drop_profile_fit_changed" =>
             /\ drop_fit'.profile_extract_line = drop_fit.profile_extract_line
             /\ drop_fit'.profile_fit_line =
                   LineFor(drop_fit.profile_fit_line, drop_fit'.bn_drop_profile_fit)]_vars

=============================================================================
